---- MODULE Spec2Model ----
(***************************************************************************)
(* A model of the mini-app casino backend (src/main.py, src/models.py).    *)
(*                                                                         *)
(* The storage layer holds three tables (users, games, safe_sessions);     *)
(* the process holds one in-memory dictionary (user_balances_cache).       *)
(* Request handlers are asyncio coroutines: every `await database...` is a *)
(* point where another request may run, and the handlers use no            *)
(* transaction, so every SQL statement commits on its own.  One action of  *)
(* the model is one SQL statement together with the handler's local code   *)
(* that follows it up to the next statement; a write to the in-memory      *)
(* cache happens when the coroutine is resumed, so it belongs to the       *)
(* action of the NEXT statement (or to the handler's return).              *)
(*                                                                         *)
(* Amounts (Float columns and float request fields) are fixed-point        *)
(* integers counting thousandths: 1.0 is Unit.                             *)
(*                                                                         *)
(* Specifications:                                                         *)
(*   Spec       every ledger and game route from a fresh process start;    *)
(*   StartSpec  /safe/start next to /balance/add;                          *)
(*   SafeSpec   /safe/guess and /safe/hint on the one session that a       *)
(*              completed /safe/start leaves behind;                       *)
(*   GuessSpec  /safe/guess alone on that session.                         *)
(*   InitUserSpec  /init next to /balance/add.                             *)
(*   SubscribeSpec /balance/subscribe next to /balance/add.                *)
(* Each bounds the number of requests a behaviour starts (budget).         *)
(***************************************************************************)
EXTENDS Integers, Sequences, FiniteSets, TLC

\* ------------------------------------------------------------------ bounds
\* Concurrent request slots (coroutines alive at the same time).
NProcs == 2
\* Requests started in one behaviour of Spec (all ledger and game routes).
MaxReqs == 2
\* Requests started in one behaviour of SafeSpec (/safe/guess, /safe/hint).
MaxSafeReqs == 3
\* Requests started in one behaviour of GuessSpec (/safe/guess alone).
MaxGuessReqs == 4
\* Requests started in one behaviour of StartSpec (/safe/start, /balance/add).
MaxStartReqs == 2
\* Requests started in one behaviour of InitUserSpec (/init, /balance/add).
MaxInitReqs == 3
\* Requests started in one behaviour of SubscribeSpec (/balance/subscribe,
\* /balance/add).
MaxSubscribeReqs == 2
\* /balance/subscribe requests polling at the same time.
MaxSubscribers == 1

\* ------------------------------------------------------------- value sets
\* Thousandths per currency unit: amounts are Float in the source.
Unit == 1000

Procs == 1..NProcs
UserIds == {1, 2}
\* The user whose account exists when the process starts.
Alice == 1
Currencies == {"ton", "usdt"}
\* Request currency strings: valid, valid only after .lower(), invalid.
CurrencyInputs == {"ton", "USDT", "btc"}
\* 0.004: an amount with a third decimal place (request amounts are floats).
SubCent == 4
\* Request amounts and bets: negative, zero, below one hundredth, one unit.
Amounts == {0 - Unit, 0, SubCent, Unit}
\* Balances the account may hold when the process starts.
InitBalances == {0, Unit}
\* Codes randint may draw (a sample of the 1000): two permutations of the
\* same digits, so that sequence equality and multiset equality differ.
Codes == {<<1, 4, 7>>, <<7, 4, 1>>}
\* Guesses a client may send: the two codes and a list that is too short.
Guesses == Codes \cup {<<1, 4>>}
CoinChoices == {"heads", "tails", "edge"}
BoxChoices == {2, 4}
\* A session id no session has.
NoSession == 0
\* Balances a /balance/subscribe client may report as its last known ones.
ClientBalances == {[ton |-> 0, usdt |-> 0], [ton |-> SubCent, usdt |-> 0]}

VARIABLES
    users,                \* table users: id -> [ton, usdt]
    games,                \* table games: id -> [user_id, game, bet, result, win]
    safe_sessions,        \* table safe_sessions: id -> row
    user_balances_cache,  \* the in-memory dict: user id -> [ton, usdt]
    uuid,                 \* number of uuid4() tokens drawn so far
    pc,                   \* per request slot: where its coroutine stands
    req,                  \* per request slot: request body and locals
    resp,                 \* the response most recently sent (by any slot)
    budget,               \* requests the behaviour may still start
    audit,                \* history: per user and currency, the stake debits
    sess_audit            \* history: per session, accepted guesses, prizes, hints

vars == <<users, games, safe_sessions, user_balances_cache, uuid, pc, req,
          resp, budget, audit, sess_audit>>

db == <<users, games, safe_sessions>>

\* ---------------------------------------------------------------- helpers
\* str.lower() on the request currency strings.
Lower(s) == CASE s = "TON" -> "ton"
              [] s = "USDT" -> "usdt"
              [] OTHER -> s

\* round(x, 2): x in thousandths, to the nearest hundredth, ties to even.
Round2(x) ==
    LET r == x % 10
        lo == x - r
    IN  IF r < 5 THEN lo
        ELSE IF r > 5 THEN lo + 10
        ELSE IF (lo \div 10) % 2 = 0 THEN lo ELSE lo + 10

\* models.py: Column defaults of a new users row (init_user passes 0.0, 0.0).
NewAccount == [ton |-> 0, usdt |-> 0]

\* users.select().where(users.c.id == id): the row, or None.
None == [none |-> TRUE]
FetchUser(id) == IF id \in DOMAIN users THEN users[id] ELSE None

\* users.update().where(users.c.id == id).values({col: col + delta}):
\* no row matches an unknown id, and the statement changes nothing.
UpdateBalance(tbl, id, cur, delta) ==
    IF id \in DOMAIN tbl THEN [tbl EXCEPT ![id][cur] = @ + delta] ELSE tbl

\* users.update().where(id).where(col >= bet): does a row match?
DebitMatches(tbl, id, cur, bet) == id \in DOMAIN tbl /\ tbl[id][cur] >= bet

NoReq == [op |-> "none"]
NoResp == [op |-> "none", status |-> 0, detail |-> "", body |-> <<>>,
           staked |-> FALSE, logged |-> FALSE]

\* An HTTP response: raise HTTPException(status, detail), or a 200 with a body.
\* The Russian detail texts of the source are given in English.
\* staked and logged are history: did this request debit a stake, did it
\* insert its Game Log row.
Reply(op, status, detail, body, staked, logged) ==
    [op |-> op, status |-> status, detail |-> detail, body |-> body,
     staked |-> staked, logged |-> logged]
Error(op, status, detail) == Reply(op, status, detail, <<>>, FALSE, FALSE)

\* The handler in slot p returns or raises: r is sent to the client.
Finish(p, r) ==
    /\ pc' = [pc EXCEPT ![p] = "idle"]
    /\ req' = [req EXCEPT ![p] = NoReq]
    /\ resp' = r

\* The handler in slot p arrives at its next statement.
Goto(p, label, r) ==
    /\ pc' = [pc EXCEPT ![p] = label]
    /\ req' = [req EXCEPT ![p] = r]
    /\ resp' = NoResp

\* A new request enters slot p.  Slots have no identity in the program, so
\* a request takes the lowest idle one.
Accept(p) ==
    /\ pc[p] = "idle"
    /\ \A q \in Procs : q < p => pc[q] # "idle"
    /\ budget > 0
    /\ budget' = budget - 1

\* History of the stake debits of one user and currency.
\* start: the balance at process start; n, amts: how many stake debits ran
\* and of which amounts; over: the amounts debited from a smaller balance;
\* credited: was the balance ever written by anything but a stake debit.
NoAudit == [start |-> 0, n |-> 0, amts |-> {}, credited |-> FALSE, over |-> {}]

\* A stake debit of bet executed against balance bal.
AuditDebit(a, bal, bet) ==
    [a EXCEPT !.n = @ + 1, !.amts = @ \cup {bet},
              !.over = IF bet > bal THEN @ \cup {bet} ELSE @]

NoteDebit(id, cur, bet) ==
    audit' = IF id \in DOMAIN users
             THEN [audit EXCEPT ![id][cur] = AuditDebit(@, users[id][cur], bet)]
             ELSE audit

NoteCredit(id, cur) ==
    audit' = IF id \in DOMAIN users
             THEN [audit EXCEPT ![id][cur].credited = TRUE]
             ELSE audit

\* ------------------------------------------------------------ POST /init
\* An upsert that overwrites the existing row with the defaults.
InsertUserReset(tbl, id) ==
    [u \in DOMAIN tbl \cup {id} |-> IF u = id THEN NewAccount ELSE tbl[u]]

\* INSERT ... ON CONFLICT DO NOTHING: an existing row is left as it is.
InsertUserIfAbsent(tbl, id) ==
    IF id \in DOMAIN tbl THEN tbl ELSE tbl @@ (id :> NewAccount)

InitInsert(p) ==
    /\ Accept(p)
    /\ \E id \in UserIds :
        /\ users' = InsertUserIfAbsent(users, id)
        /\ Goto(p, "init_fetch", [op |-> "init", id |-> id])
    /\ UNCHANGED <<games, safe_sessions, user_balances_cache, uuid, audit, sess_audit>>

InitFetch(p) ==
    /\ pc[p] = "init_fetch"
    /\ LET row == FetchUser(req[p].id)
       IN  Finish(p, IF row = None
                     THEN Error("init", 500, "user not found")
                     ELSE Reply("init", 200, "", row, FALSE, FALSE))
    /\ UNCHANGED <<db, user_balances_cache, uuid, budget, audit, sess_audit>>

\* ----------------------------------------------------- POST /balance/add
\* The currency is compared as sent (no .lower() here).
AddUpdate(p) ==
    /\ Accept(p)
    /\ \E id \in UserIds, currency \in CurrencyInputs, amount \in Amounts :
        IF currency \notin Currencies
        THEN /\ Finish(p, Error("add", 400, "Invalid currency"))
             /\ UNCHANGED <<users, audit>>
        ELSE /\ users' = UpdateBalance(users, id, currency, amount)
             /\ NoteCredit(id, currency)
             /\ Goto(p, "add_fetch", [op |-> "add", id |-> id])
    /\ UNCHANGED <<games, safe_sessions, user_balances_cache, uuid, sess_audit>>

\* row is None for an unknown id, and row["ton_balance"] raises TypeError:
\* the framework answers 500.
AddFetch(p) ==
    /\ pc[p] = "add_fetch"
    /\ LET row == FetchUser(req[p].id)
       IN  IF row = None
           THEN Finish(p, Error("add", 500, "Internal Server Error"))
           ELSE Goto(p, "add_cache", [req[p] EXCEPT !.op = "add"] @@ [row |-> row])
    /\ UNCHANGED <<db, user_balances_cache, uuid, budget, audit, sess_audit>>

\* user_balances_cache[str(id)] = {...}
WriteCache(id, row) ==
    user_balances_cache' =
        [u \in DOMAIN user_balances_cache \cup {id} |->
            IF u = id THEN row ELSE user_balances_cache[u]]

AddCache(p) ==
    /\ pc[p] = "add_cache"
    /\ WriteCache(req[p].id, req[p].row)
    /\ Finish(p, Reply("add", 200, "updated", <<>>, FALSE, FALSE))
    /\ UNCHANGED <<db, uuid, budget, audit, sess_audit>>

\* --------------------------------------------------- POST /balance/prize
PrizeUpdate(p) ==
    /\ Accept(p)
    /\ \E id \in UserIds, currency \in CurrencyInputs, amount \in Amounts :
        IF currency \notin Currencies
        THEN /\ Finish(p, Error("prize", 400, "Invalid currency"))
             /\ UNCHANGED <<users, audit>>
        ELSE /\ users' = UpdateBalance(users, id, currency, amount)
             /\ NoteCredit(id, currency)
             \* .returning(col): the new value, or None when no row matched
             /\ Goto(p, "prize_fetch",
                     [op |-> "prize", id |-> id,
                      result |-> IF id \in DOMAIN users
                                 THEN users[id][currency] + amount ELSE None])
    /\ UNCHANGED <<games, safe_sessions, user_balances_cache, uuid, sess_audit>>

PrizeFetch(p) ==
    /\ pc[p] = "prize_fetch"
    /\ LET row == FetchUser(req[p].id)
       IN  IF row = None
           THEN Finish(p, Error("prize", 500, "Internal Server Error"))
           ELSE Goto(p, "prize_cache", req[p] @@ [row |-> row])
    /\ UNCHANGED <<db, user_balances_cache, uuid, budget, audit, sess_audit>>

PrizeCache(p) ==
    /\ pc[p] = "prize_cache"
    /\ WriteCache(req[p].id, req[p].row)
    /\ Finish(p, Reply("prize", 200, "prize_added",
                       [new_balance |-> req[p].result], FALSE, FALSE))
    /\ UNCHANGED <<db, uuid, budget, audit, sess_audit>>

\* ------------------------------------------------------------ POST /game
\* The request bodies the model sends: a stake (final=False) or a
\* settlement (final=True) of a client-side game.
GameInputs ==
    [user_id : UserIds, currency : CurrencyInputs, bet : Amounts,
     final : {FALSE}, win : {FALSE}, result : {"pending"}, prize_amount : {0}]
    \cup
    [user_id : UserIds, currency : CurrencyInputs, bet : {Unit},
     final : {TRUE}, win : {TRUE}, result : {"win"}, prize_amount : Amounts]
    \cup
    [user_id : UserIds, currency : CurrencyInputs, bet : {Unit},
     final : {TRUE}, win : {FALSE}, result : {"lose"}, prize_amount : {0}]

\* games.insert(): the foreign key games.user_id -> users.id must hold.
InsertGame(tbl, id, row) == tbl @@ (id :> row)

GameRow(user_id, game, bet, result, win) ==
    [user_id |-> user_id, game |-> game, bet |-> bet, result |-> result,
     win |-> win]

GameStart(p) ==
    /\ Accept(p)
    /\ \E game \in GameInputs :
        LET currency == Lower(game.currency)
            r == [op |-> "game", game |-> game, staked |-> ~game.final]
        IN  IF currency \notin Currencies
            THEN /\ Finish(p, Error("game", 400, "Invalid currency"))
                 /\ UNCHANGED <<users, audit>>
            ELSE IF ~game.final
            THEN \* one conditional UPDATE ... WHERE balance >= bet RETURNING
                 IF DebitMatches(users, game.user_id, currency, game.bet)
                 THEN /\ users' = UpdateBalance(users, game.user_id, currency,
                                                0 - game.bet)
                      /\ NoteDebit(game.user_id, currency, game.bet)
                      /\ Goto(p, "game_insert", r)
                 ELSE /\ Finish(p, Error("game", 400, "insufficient funds"))
                      /\ UNCHANGED <<users, audit>>
            ELSE IF game.win /\ game.prize_amount > 0
            THEN /\ users' = UpdateBalance(users, game.user_id, currency,
                                           game.prize_amount)
                 /\ NoteCredit(game.user_id, currency)
                 /\ Goto(p, "game_insert", r)
            ELSE /\ Goto(p, "game_insert", r)
                 /\ UNCHANGED <<users, audit>>
    /\ UNCHANGED <<games, safe_sessions, user_balances_cache, uuid, sess_audit>>

GameInsert(p) ==
    /\ pc[p] = "game_insert"
    /\ LET game == req[p].game
       IN  IF game.user_id \in DOMAIN users
           THEN /\ uuid' = uuid + 1
                /\ games' = InsertGame(games, uuid + 1,
                                GameRow(game.user_id, "Dice", game.bet,
                                        game.result, game.win))
                /\ Goto(p, "game_fetch", req[p])
           ELSE \* foreign-key violation: the insert raises, 500
                /\ uuid' = uuid + 1
                /\ Finish(p, Reply("game", 500, "Internal Server Error", <<>>,
                                   FALSE, FALSE))
                /\ UNCHANGED games
    /\ UNCHANGED <<users, safe_sessions, user_balances_cache, budget, audit, sess_audit>>

GameFetch(p) ==
    /\ pc[p] = "game_fetch"
    /\ Goto(p, "game_cache", req[p] @@ [row |-> FetchUser(req[p].game.user_id)])
    /\ UNCHANGED <<db, user_balances_cache, uuid, budget, audit, sess_audit>>

\* The cache write, then `return await get_balance(user_id)`.
GameCache(p) ==
    /\ pc[p] = "game_cache"
    /\ WriteCache(req[p].game.user_id, req[p].row)
    /\ Finish(p, Reply("game", 200, "", FetchUser(req[p].game.user_id),
                       req[p].staked, TRUE))
    /\ UNCHANGED <<db, uuid, budget, audit, sess_audit>>

\* ------------------------------------------------------ POST /coin/start
Opposite(side) == IF side = "heads" THEN "tails" ELSE "heads"

\* prize = round(bet * 2, 2) if is_win else 0.0
CoinPrize(bet, is_win) == IF is_win THEN Round2(bet * 2) ELSE 0

\* The choice and currency checks, then the SELECT of the user row and the
\* balance check on the row that was read.
CoinStart(p) ==
    /\ Accept(p)
    /\ \E user_id \in UserIds, cin \in CurrencyInputs, bet \in Amounts,
          choice \in CoinChoices :
        LET currency == Lower(cin)
            row == FetchUser(user_id)
        IN  IF choice \notin {"heads", "tails"}
            THEN Finish(p, Error("coin", 400, "bad side"))
            ELSE IF currency \notin Currencies
            THEN Finish(p, Error("coin", 400, "bad currency"))
            ELSE IF row = None
            THEN Finish(p, Error("coin", 404, "user not found"))
            ELSE IF row[currency] < bet
            THEN Finish(p, Error("coin", 400, "insufficient funds"))
            ELSE Goto(p, "coin_debit",
                      [op |-> "coin", user_id |-> user_id, currency |-> currency,
                       bet |-> bet, choice |-> choice])
    /\ UNCHANGED <<db, user_balances_cache, uuid, audit, sess_audit>>

\* The unconditional UPDATE balance = balance - bet, then the draw
\* random() < 2/12 and the result and prize computed from it.
CoinDebit(p) ==
    /\ pc[p] = "coin_debit"
    /\ users' = UpdateBalance(users, req[p].user_id, req[p].currency,
                              0 - req[p].bet)
    /\ NoteDebit(req[p].user_id, req[p].currency, req[p].bet)
    /\ \E is_win \in BOOLEAN :
        Goto(p, IF is_win THEN "coin_credit" ELSE "coin_insert",
             req[p] @@ [is_win |-> is_win,
                        result |-> IF is_win THEN req[p].choice
                                   ELSE Opposite(req[p].choice),
                        prize |-> CoinPrize(req[p].bet, is_win)])
    /\ UNCHANGED <<games, safe_sessions, user_balances_cache, uuid, budget, sess_audit>>

CoinCredit(p) ==
    /\ pc[p] = "coin_credit"
    /\ users' = UpdateBalance(users, req[p].user_id, req[p].currency, req[p].prize)
    /\ NoteCredit(req[p].user_id, req[p].currency)
    /\ Goto(p, "coin_insert", req[p])
    /\ UNCHANGED <<games, safe_sessions, user_balances_cache, uuid, budget, sess_audit>>

CoinInsert(p) ==
    /\ pc[p] = "coin_insert"
    /\ uuid' = uuid + 1
    /\ games' = InsertGame(games, uuid + 1,
                    GameRow(req[p].user_id, "Coin", req[p].bet,
                            IF req[p].is_win THEN "win" ELSE "lose",
                            req[p].is_win))
    /\ Goto(p, "coin_fetch", req[p])
    /\ UNCHANGED <<users, safe_sessions, user_balances_cache, budget, audit, sess_audit>>

CoinFetch(p) ==
    /\ pc[p] = "coin_fetch"
    /\ Goto(p, "coin_cache", req[p] @@ [new_row |-> FetchUser(req[p].user_id)])
    /\ UNCHANGED <<db, user_balances_cache, uuid, budget, audit, sess_audit>>

CoinCache(p) ==
    /\ pc[p] = "coin_cache"
    /\ WriteCache(req[p].user_id, req[p].new_row)
    /\ Finish(p, Reply("coin", 200, "",
                       [result |-> req[p].result, win |-> req[p].is_win,
                        prize |-> req[p].prize], TRUE, TRUE))
    /\ UNCHANGED <<db, uuid, budget, audit, sess_audit>>

\* ----------------------------------------------------- POST /boxes/start
BoxesStart(p) ==
    /\ Accept(p)
    /\ \E user_id \in UserIds, cin \in CurrencyInputs, bet \in Amounts,
          choice \in BoxChoices :
        LET currency == Lower(cin)
            row == FetchUser(user_id)
        IN  IF currency \notin Currencies
            THEN Finish(p, Error("boxes", 400, "bad currency"))
            ELSE IF row = None
            THEN Finish(p, Error("boxes", 404, "user not found"))
            ELSE IF row[currency] < bet
            THEN Finish(p, Error("boxes", 400, "insufficient funds"))
            ELSE Goto(p, "boxes_debit",
                      [op |-> "boxes", user_id |-> user_id, currency |-> currency,
                       bet |-> bet, choice |-> choice])
    /\ UNCHANGED <<db, user_balances_cache, uuid, audit, sess_audit>>

\* The UPDATE balance = balance - bet commits; then `random.random()` is
\* evaluated, where `random` is the function bound by
\* `from random import random`: AttributeError, and the framework answers
\* 500.  Nothing after that line of the handler is ever executed.
BoxesDebit(p) ==
    /\ pc[p] = "boxes_debit"
    /\ users' = UpdateBalance(users, req[p].user_id, req[p].currency,
                              0 - req[p].bet)
    /\ NoteDebit(req[p].user_id, req[p].currency, req[p].bet)
    /\ Finish(p, Reply("boxes", 500, "Internal Server Error", <<>>, TRUE, FALSE))
    /\ UNCHANGED <<games, safe_sessions, user_balances_cache, uuid, budget, sess_audit>>

\* ------------------------------------------------- POST /balance/subscribe
\* for _ in range(30)
Polls == 30

\* The loop that runs one iteration more.
ExhaustedLate(polls) == polls > Polls

\* range(30) is exhausted after polls iterations.
Exhausted(polls) == polls >= Polls

\* A slot is inside the polling loop.
Subscribers == {q \in Procs : pc[q] = "sub_poll"}

\* client_ton = round(data.current_ton, 2), client_usdt likewise; the
\* handler then enters the loop.
SubscribeStart(p) ==
    /\ Accept(p)
    /\ Cardinality(Subscribers) < MaxSubscribers
    /\ \E user_id \in UserIds, current \in ClientBalances :
        Goto(p, "sub_poll",
             [op |-> "subscribe", user_id |-> user_id, current |-> current,
              client_ton |-> Round2(current.ton),
              client_usdt |-> Round2(current.usdt), polls |-> 0])
    /\ UNCHANGED <<db, user_balances_cache, uuid, audit, sess_audit>>

\* One iteration: the sleep, the SELECT of the user row, the comparison of
\* the rounded balances; after the last iteration, {"update": False}.
SubscribePoll(p) ==
    /\ pc[p] = "sub_poll"
    /\ LET row == FetchUser(req[p].user_id)
           ton == Round2(row.ton)
           usdt == Round2(row.usdt)
       IN  IF row # None /\ (ton # req[p].client_ton \/ usdt # req[p].client_usdt)
           THEN Finish(p, Reply("subscribe", 200, "",
                                [update |-> TRUE, ton |-> ton, usdt |-> usdt],
                                FALSE, FALSE))
           ELSE IF Exhausted(req[p].polls + 1)
           THEN Finish(p, Reply("subscribe", 200, "", [update |-> FALSE],
                                FALSE, FALSE))
           ELSE Goto(p, "sub_poll", [req[p] EXCEPT !.polls = @ + 1])
    /\ UNCHANGED <<db, user_balances_cache, uuid, budget, audit, sess_audit>>

\* ------------------------------------------------------ POST /safe/start
\* A session created with one attempt already counted.
NewSessionOneAttempt(user_id, currency, bet, code) ==
    [user_id |-> user_id, currency |-> currency, bet |-> bet, code |-> code,
     attempts |-> 1, used_hint |-> FALSE, is_finished |-> FALSE]

NewSession(user_id, currency, bet, code) ==
    [user_id |-> user_id, currency |-> currency, bet |-> bet, code |-> code,
     attempts |-> 0, used_hint |-> FALSE, is_finished |-> FALSE]

NoSessAudit == [accepted |-> 0, prizes |-> 0, flips |-> 0,
                hint_debits |-> 0, hint_flips |-> 0, hints_ok |-> 0]

\* The currency check, the SELECT of the user row, the balance check; then
\* code = [randint(0, 9) for _ in range(3)] and session_id = str(uuid4()).
SafeStart(p) ==
    /\ Accept(p)
    /\ \E user_id \in UserIds, cin \in CurrencyInputs, bet \in Amounts :
        LET currency == Lower(cin)
            user == FetchUser(user_id)
        IN  IF currency \notin Currencies
            THEN /\ Finish(p, Error("safe_start", 400, "bad currency"))
                 /\ UNCHANGED uuid
            ELSE IF user = None
            THEN /\ Finish(p, Error("safe_start", 404, "user not found"))
                 /\ UNCHANGED uuid
            ELSE IF user[currency] < bet
            THEN /\ Finish(p, Error("safe_start", 400, "insufficient funds"))
                 /\ UNCHANGED uuid
            ELSE /\ uuid' = uuid + 1
                 /\ \E code \in Codes :
                      Goto(p, "safe_insert",
                           [op |-> "safe_start", user_id |-> user_id,
                            currency |-> currency, bet |-> bet, code |-> code,
                            current_balance |-> user[currency],
                            session_id |-> uuid + 1])
    /\ UNCHANGED <<db, user_balances_cache, audit, sess_audit>>

SafeInsertSession(p) ==
    /\ pc[p] = "safe_insert"
    /\ safe_sessions' = safe_sessions @@
            (req[p].session_id :> NewSession(req[p].user_id, req[p].currency,
                                             req[p].bet, req[p].code))
    /\ sess_audit' = sess_audit @@ (req[p].session_id :> NoSessAudit)
    /\ Goto(p, "safe_fetch", req[p])
    /\ UNCHANGED <<users, games, user_balances_cache, uuid, budget, audit>>

SafeFetch(p) ==
    /\ pc[p] = "safe_fetch"
    /\ Goto(p, "safe_games", req[p] @@ [row |-> FetchUser(req[p].user_id)])
    /\ UNCHANGED <<db, user_balances_cache, uuid, budget, audit, sess_audit>>

\* The cache write, then the INSERT of the pending Game Log row.
SafeInsertGame(p) ==
    /\ pc[p] = "safe_games"
    /\ WriteCache(req[p].user_id, req[p].row)
    /\ games' = InsertGame(games, req[p].session_id,
                    GameRow(req[p].user_id, "Safe Cracker", req[p].bet,
                            "pending", FALSE))
    /\ Finish(p, Reply("safe_start", 200, "",
                       [success |-> TRUE, session_id |-> req[p].session_id],
                       FALSE, TRUE))
    /\ UNCHANGED <<users, safe_sessions, uuid, budget, audit, sess_audit>>

\* ------------------------------------------------------ POST /safe/guess
FetchSession(id) == IF id \in DOMAIN safe_sessions THEN safe_sessions[id] ELSE None

\* len(data.guess) != 3 (pydantic has already made every element an int).
BadFormat(guess) == Len(guess) # 3

\* is_win = data.guess == correct_code: list equality, element by element.
IsWin(guess, code) == guess = code

\* The prize of the three-fold variant.
SafePrizeTriple(bet) == bet * 3

\* prize = bet * 10
SafePrize(bet) == bet * 10

\* The checks without the is_finished one.
GuessCheckNoFinished(session, user_id, guess) ==
    IF session = None THEN Error("guess", 404, "session not found")
    ELSE IF session.user_id # user_id THEN Error("guess", 403, "not the owner")
    ELSE IF BadFormat(guess) THEN Error("guess", 400, "bad code format")
    ELSE IF session.attempts >= 3 THEN Error("guess", 400, "no attempts left")
    ELSE NoResp

\* The checks of safe_guess in the order of the source, on the session row
\* that was read: the error raised, or NoResp when the guess is accepted.
GuessCheck(session, user_id, guess) ==
    IF session = None THEN Error("guess", 404, "session not found")
    ELSE IF session.is_finished THEN Error("guess", 400, "game already finished")
    ELSE IF session.user_id # user_id THEN Error("guess", 403, "not the owner")
    ELSE IF BadFormat(guess) THEN Error("guess", 400, "bad code format")
    ELSE IF session.attempts >= 3 THEN Error("guess", 400, "no attempts left")
    ELSE NoResp

\* The branch with the attempt limit off by one.
GuessBranchLate(is_win, updated_attempts) ==
    IF is_win THEN "guess_win_credit"
    ELSE IF updated_attempts > 3 THEN "guess_lose_games"
    ELSE "guess_try"

\* if is_win / elif updated_attempts >= 3 / else
GuessBranch(is_win, updated_attempts) ==
    IF is_win THEN "guess_win_credit"
    ELSE IF updated_attempts >= 3 THEN "guess_lose_games"
    ELSE "guess_try"

\* The SELECT of the session row, the checks, and the locals computed from
\* the row.
GuessStart(p) ==
    /\ Accept(p)
    /\ \E session_id \in DOMAIN safe_sessions \cup {NoSession},
          user_id \in UserIds, guess \in Guesses :
        LET session == FetchSession(session_id)
            err == GuessCheck(session, user_id, guess)
        IN  IF err # NoResp
            THEN Finish(p, err)
            ELSE Goto(p, GuessBranch(IsWin(guess, session.code),
                                     session.attempts + 1),
                      [op |-> "guess", session_id |-> session_id,
                       user_id |-> user_id, guess |-> guess,
                       correct_code |-> session.code,
                       attempts |-> session.attempts,
                       bet |-> session.bet, currency |-> session.currency,
                       updated_attempts |-> session.attempts + 1,
                       prize |-> SafePrize(session.bet)])
    /\ UNCHANGED <<db, user_balances_cache, uuid, audit, sess_audit>>

\* games.update().where(games.c.id == id).values(result=..., win=...)
UpdateGame(tbl, id, result, win) ==
    IF id \in DOMAIN tbl
    THEN [tbl EXCEPT ![id].result = result, ![id].win = win]
    ELSE tbl

\* safe_sessions.update().where(id).values(attempts=..., is_finished=True)
FinishSession(tbl, id, attempts) ==
    [tbl EXCEPT ![id].attempts = attempts, ![id].is_finished = TRUE]

\* safe_sessions.update().where(id).values(attempts=...)
SetAttempts(tbl, id, attempts) == [tbl EXCEPT ![id].attempts = attempts]

\* History: a guess on session id was answered win, lose or try_again.
Answered(a, id) == [a EXCEPT ![id].accepted = @ + 1]

\* History: is_finished of session id is written TRUE.
Flipped(a, id) ==
    IF safe_sessions[id].is_finished THEN a ELSE [a EXCEPT ![id].flips = @ + 1]

GuessCredit(p) ==
    /\ pc[p] = "guess_win_credit"
    /\ users' = UpdateBalance(users, req[p].user_id, req[p].currency, req[p].prize)
    /\ NoteCredit(req[p].user_id, req[p].currency)
    /\ sess_audit' = [sess_audit EXCEPT ![req[p].session_id].prizes = @ + 1]
    /\ Goto(p, "guess_win_games", req[p])
    /\ UNCHANGED <<games, safe_sessions, user_balances_cache, uuid, budget>>

GuessWinGames(p) ==
    /\ pc[p] = "guess_win_games"
    /\ games' = UpdateGame(games, req[p].session_id, "win", TRUE)
    /\ Goto(p, "guess_win_session", req[p])
    /\ UNCHANGED <<users, safe_sessions, user_balances_cache, uuid, budget, audit,
                   sess_audit>>

GuessWinSession(p) ==
    /\ pc[p] = "guess_win_session"
    /\ safe_sessions' = FinishSession(safe_sessions, req[p].session_id,
                                      req[p].updated_attempts)
    /\ sess_audit' = Flipped(sess_audit, req[p].session_id)
    /\ Goto(p, "guess_win_fetch", req[p])
    /\ UNCHANGED <<users, games, user_balances_cache, uuid, budget, audit>>

GuessWinFetch(p) ==
    /\ pc[p] = "guess_win_fetch"
    /\ Goto(p, "guess_win_cache", req[p] @@ [row |-> FetchUser(req[p].user_id)])
    /\ UNCHANGED <<db, user_balances_cache, uuid, budget, audit, sess_audit>>

GuessWinCache(p) ==
    /\ pc[p] = "guess_win_cache"
    /\ WriteCache(req[p].user_id, req[p].row)
    /\ Finish(p, Reply("guess", 200, "",
                       [result |-> "win", prize |-> req[p].prize,
                        code |-> req[p].correct_code], FALSE, FALSE))
    /\ sess_audit' = Answered(sess_audit, req[p].session_id)
    /\ UNCHANGED <<db, uuid, budget, audit>>

GuessLoseGames(p) ==
    /\ pc[p] = "guess_lose_games"
    /\ games' = UpdateGame(games, req[p].session_id, "lose", FALSE)
    /\ Goto(p, "guess_lose_session", req[p])
    /\ UNCHANGED <<users, safe_sessions, user_balances_cache, uuid, budget, audit,
                   sess_audit>>

GuessLoseSession(p) ==
    /\ pc[p] = "guess_lose_session"
    /\ safe_sessions' = FinishSession(safe_sessions, req[p].session_id,
                                      req[p].updated_attempts)
    /\ sess_audit' = Answered(Flipped(sess_audit, req[p].session_id),
                              req[p].session_id)
    /\ Finish(p, Reply("guess", 200, "",
                       [result |-> "lose", code |-> req[p].correct_code],
                       FALSE, FALSE))
    /\ UNCHANGED <<users, games, user_balances_cache, uuid, budget, audit>>

GuessTryAgain(p) ==
    /\ pc[p] = "guess_try"
    /\ safe_sessions' = SetAttempts(safe_sessions, req[p].session_id,
                                    req[p].updated_attempts)
    /\ Finish(p, Reply("guess", 200, "",
                       [result |-> "try_again",
                        attempts_left |-> 3 - req[p].updated_attempts],
                       FALSE, FALSE))
    /\ sess_audit' = Answered(sess_audit, req[p].session_id)
    /\ UNCHANGED <<users, games, user_balances_cache, uuid, budget, audit>>

\* ------------------------------------------------------- POST /safe/hint
\* hint_cost = 1.0
HintCost == Unit

\* The checks without the ownership one.
HintCheckNoOwner(session, user_id) ==
    IF session = None THEN Error("hint", 404, "session not found")
    ELSE IF session.is_finished THEN Error("hint", 400, "game already finished")
    ELSE IF session.used_hint THEN Error("hint", 400, "hint already used")
    ELSE NoResp

\* The checks of safe_hint on the session row that was read.
HintCheck(session, user_id) ==
    IF session = None THEN Error("hint", 404, "session not found")
    ELSE IF session.is_finished THEN Error("hint", 400, "game already finished")
    ELSE IF session.used_hint THEN Error("hint", 400, "hint already used")
    ELSE IF session.user_id # user_id THEN Error("hint", 403, "not the owner")
    ELSE NoResp

HintStart(p) ==
    /\ Accept(p)
    /\ \E session_id \in DOMAIN safe_sessions \cup {NoSession}, user_id \in UserIds :
        LET session == FetchSession(session_id)
            err == HintCheck(session, user_id)
        IN  IF err # NoResp
            THEN Finish(p, err)
            ELSE Goto(p, "hint_user",
                      [op |-> "hint", session_id |-> session_id,
                       user_id |-> user_id, currency |-> session.currency,
                       correct_code |-> session.code])
    /\ UNCHANGED <<db, user_balances_cache, uuid, audit, sess_audit>>

\* The SELECT of the user row and the balance check on the row that was read.
HintUser(p) ==
    /\ pc[p] = "hint_user"
    /\ LET user_row == FetchUser(req[p].user_id)
       IN  IF user_row = None
           THEN Finish(p, Error("hint", 404, "user not found"))
           ELSE IF user_row[req[p].currency] < HintCost
           THEN Finish(p, Error("hint", 400, "insufficient funds for hint"))
           ELSE Goto(p, "hint_debit", req[p])
    /\ UNCHANGED <<db, user_balances_cache, uuid, budget, audit, sess_audit>>

HintDebit(p) ==
    /\ pc[p] = "hint_debit"
    /\ users' = UpdateBalance(users, req[p].user_id, req[p].currency, 0 - HintCost)
    /\ NoteDebit(req[p].user_id, req[p].currency, HintCost)
    /\ sess_audit' = [sess_audit EXCEPT ![req[p].session_id].hint_debits = @ + 1]
    /\ Goto(p, "hint_session", req[p])
    /\ UNCHANGED <<games, safe_sessions, user_balances_cache, uuid, budget>>

\* safe_sessions.update().where(id).values(used_hint=True)
SetUsedHint(tbl, id) == [tbl EXCEPT ![id].used_hint = TRUE]

HintSession(p) ==
    /\ pc[p] = "hint_session"
    /\ safe_sessions' = SetUsedHint(safe_sessions, req[p].session_id)
    /\ sess_audit' = IF safe_sessions[req[p].session_id].used_hint THEN sess_audit
                     ELSE [sess_audit EXCEPT ![req[p].session_id].hint_flips = @ + 1]
    /\ Goto(p, "hint_fetch", req[p])
    /\ UNCHANGED <<users, games, user_balances_cache, uuid, budget, audit>>

HintFetch(p) ==
    /\ pc[p] = "hint_fetch"
    /\ Goto(p, "hint_cache", req[p] @@ [row |-> FetchUser(req[p].user_id)])
    /\ UNCHANGED <<db, user_balances_cache, uuid, budget, audit, sess_audit>>

\* hint_digit = correct_code[0]: the first element (index 1 here).
HintCache(p) ==
    /\ pc[p] = "hint_cache"
    /\ WriteCache(req[p].user_id, req[p].row)
    /\ sess_audit' = [sess_audit EXCEPT ![req[p].session_id].hints_ok = @ + 1]
    /\ Finish(p, Reply("hint", 200, "",
                       [hint |-> req[p].correct_code[1], cost |-> HintCost],
                       FALSE, FALSE))
    /\ UNCHANGED <<db, uuid, budget, audit>>

\* ---------------------------------------------------------- specification
StartAudit(b) ==
    [u \in UserIds |-> [c \in Currencies |->
        IF u = Alice /\ c = "ton" THEN [NoAudit EXCEPT !.start = b] ELSE NoAudit]]

\* The database as the process finds it: one account, no play yet.
Fresh ==
    /\ \E b \in InitBalances :
        /\ users = (Alice :> [ton |-> b, usdt |-> 0])
        /\ audit = StartAudit(b)
    /\ games = <<>>
    /\ safe_sessions = <<>>
    /\ user_balances_cache = <<>>
    /\ uuid = 0
    /\ pc = [p \in Procs |-> "idle"]
    /\ req = [p \in Procs |-> NoReq]
    /\ resp = NoResp
    /\ sess_audit = <<>>

Init == Fresh /\ budget = MaxReqs

LedgerStep(p) ==
    \/ InitInsert(p) \/ InitFetch(p)
    \/ AddUpdate(p) \/ AddFetch(p) \/ AddCache(p)
    \/ PrizeUpdate(p) \/ PrizeFetch(p) \/ PrizeCache(p)
    \/ GameStart(p) \/ GameInsert(p) \/ GameFetch(p) \/ GameCache(p)
    \/ CoinStart(p) \/ CoinDebit(p) \/ CoinCredit(p) \/ CoinInsert(p)
    \/ CoinFetch(p) \/ CoinCache(p)
    \/ BoxesStart(p) \/ BoxesDebit(p)
    \/ SafeStart(p) \/ SafeInsertSession(p) \/ SafeFetch(p) \/ SafeInsertGame(p)

Next == \E p \in Procs : LedgerStep(p)

Spec == Init /\ [][Next]_vars

\* The database after one completed /safe/start of the existing account
\* (the state SafeInsertGame leaves): one active session with its pending
\* Game Log row.
OneSession ==
    /\ \E b \in InitBalances, code \in Codes :
        /\ users = (Alice :> [ton |-> b, usdt |-> 0])
        /\ safe_sessions = (1 :> NewSession(Alice, "ton", Unit, code))
        /\ user_balances_cache = (Alice :> [ton |-> b, usdt |-> 0])
        /\ audit = StartAudit(b)
    /\ games = (1 :> GameRow(Alice, "Safe Cracker", Unit, "pending", FALSE))
    /\ uuid = 1
    /\ pc = [p \in Procs |-> "idle"]
    /\ req = [p \in Procs |-> NoReq]
    /\ resp = NoResp
    /\ sess_audit = (1 :> NoSessAudit)

SafeInit == OneSession /\ budget = MaxSafeReqs

GuessStep(p) ==
    \/ GuessStart(p) \/ GuessCredit(p) \/ GuessWinGames(p) \/ GuessWinSession(p)
    \/ GuessWinFetch(p) \/ GuessWinCache(p)
    \/ GuessLoseGames(p) \/ GuessLoseSession(p) \/ GuessTryAgain(p)

SafeStep(p) ==
    \/ GuessStep(p)
    \/ HintStart(p) \/ HintUser(p) \/ HintDebit(p) \/ HintSession(p)
    \/ HintFetch(p) \/ HintCache(p)

SafeNext == \E p \in Procs : SafeStep(p)

SafeSpec == SafeInit /\ [][SafeNext]_vars

\* /safe/guess alone on the one session.
GuessInit == OneSession /\ budget = MaxGuessReqs

GuessNext == \E p \in Procs : GuessStep(p)

GuessSpec == GuessInit /\ [][GuessNext]_vars

\* /safe/start next to /balance/add, a concurrent writer of the balance.
StartStep(p) ==
    \/ SafeStart(p) \/ SafeInsertSession(p) \/ SafeFetch(p) \/ SafeInsertGame(p)
    \/ AddUpdate(p) \/ AddFetch(p) \/ AddCache(p)

StartNext == \E p \in Procs : StartStep(p)

StartInit == Fresh /\ budget = MaxStartReqs

StartSpec == StartInit /\ [][StartNext]_vars

\* /init next to /balance/add, the credits and debits an account sees
\* between two /init requests.
InitUserStep(p) ==
    \/ InitInsert(p) \/ InitFetch(p)
    \/ AddUpdate(p) \/ AddFetch(p) \/ AddCache(p)

InitUserNext == \E p \in Procs : InitUserStep(p)

InitUserInit == Fresh /\ budget = MaxInitReqs

InitUserSpec == InitUserInit /\ [][InitUserNext]_vars

\* /balance/subscribe next to /balance/add, a writer of the balance polled.
SubscribeStep(p) ==
    \/ SubscribeStart(p) \/ SubscribePoll(p)
    \/ AddUpdate(p) \/ AddFetch(p) \/ AddCache(p)

SubscribeNext == \E p \in Procs : SubscribeStep(p)

SubscribeInit == Fresh /\ budget = MaxSubscribeReqs

SubscribeSpec == SubscribeInit /\ [][SubscribeNext]_vars

\* ================================================================ claims
AllIdle == \A p \in Procs : pc[p] = "idle"

\* Slot p executes the statement it stands at.
Leaves(p, label) == pc[p] = label /\ pc'[p] # label

\* Slot p accepts a request and enters label.
Enters(p, label) == pc[p] = "idle" /\ pc'[p] = label

GuessLabels == {"guess_win_credit", "guess_lose_games", "guess_try"}

\* Sequence equality spelt out: same length, same element at every position.
SameDigits(guess, code) ==
    Len(guess) = Len(code) /\ \A i \in 1..Len(code) : guess[i] = code[i]

\* C1: whenever no request is in flight, every stored balance of every
\* user, in both currencies, is >= 0.
C1_BalanceNonNegative ==
    AllIdle => \A u \in DOMAIN users : \A c \in Currencies : users[u][c] >= 0

\* C2: as long as nothing but stake debits has written a balance, no
\* positive stake was debited from a balance smaller than it, and when all
\* the debits were of one positive amount, their number times the amount is
\* at most the starting balance (at most floor(start / amount) succeeded).
C2_DebitsWithinBalance ==
    \A u \in UserIds : \A c \in Currencies :
        LET a == audit[u][c]
        IN  ~a.credited =>
              /\ \A bet \in a.over : bet <= 0
              /\ \A bet \in Amounts \cup {HintCost} :
                   (bet > 0 /\ a.amts = {bet}) => a.n * bet <= a.start

\* C3: whenever no request is in flight, the request of /coin/start,
\* /boxes/start or /game that was answered last has inserted its Game Log
\* row if it debited a stake, and has debited no stake if it ended in an
\* error.
C3_StakeHasLogRow ==
    (AllIdle /\ resp.op \in {"coin", "boxes", "game"})
        => /\ resp.staked => resp.logged
           /\ resp.status # 200 => ~resp.staked

\* C4 as stated: when a successful /safe/start returns, the balance in the
\* chosen currency is the balance the handler read minus the bet.
C4_StartDebitsBet ==
    [][\A p \in Procs :
        (Leaves(p, "safe_games") /\ pc'[p] = "idle")
            => users'[req[p].user_id][req[p].currency]
                 = req[p].current_balance - req[p].bet]_vars

C4_StartEffect(p) ==
    /\ Enters(p, "safe_insert") =>
         LET r == req'[p]
         IN  /\ r.user_id \in DOMAIN users
             /\ users[r.user_id][r.currency] >= r.bet
             /\ UNCHANGED db
    /\ Leaves(p, "safe_insert") =>
         LET r == req[p]
             sid == r.session_id
         IN  /\ sid \notin DOMAIN safe_sessions
             /\ DOMAIN safe_sessions' = DOMAIN safe_sessions \cup {sid}
             /\ safe_sessions'[sid] =
                  [user_id |-> r.user_id, currency |-> r.currency,
                   bet |-> r.bet, code |-> r.code, attempts |-> 0,
                   used_hint |-> FALSE, is_finished |-> FALSE]
             /\ Len(r.code) = 3 /\ \A i \in 1..3 : r.code[i] \in 0..9
             /\ UNCHANGED <<users, games>>
    /\ Leaves(p, "safe_fetch") => UNCHANGED db
    /\ Leaves(p, "safe_games") =>
         LET r == req[p]
             sid == r.session_id
         IN  /\ sid \notin DOMAIN games
             /\ DOMAIN games' = DOMAIN games \cup {sid}
             /\ games'[sid].result = "pending" /\ games'[sid].win = FALSE
             /\ games'[sid].user_id = r.user_id /\ games'[sid].bet = r.bet
             /\ resp'.status = 200 /\ resp'.body.session_id = sid
             /\ UNCHANGED <<users, safe_sessions>>

\* C4, amended: /safe/start is accepted only when the balance read is >= bet;
\* an accepted /safe/start writes no balance at any of its steps, inserts a
\* session with attempts=0, used_hint=false, is_finished=false and a code of
\* 3 digits in 0..9, and on return has appended a Game Log row with
\* result="pending", win=false whose id is the session id; a /safe/start
\* that is rejected (balance < bet among the reasons) writes no table.
C4_StartKeepsBalance ==
    [][/\ \A p \in Procs : C4_StartEffect(p)
       /\ (resp'.op = "safe_start" /\ resp'.status # 200) => UNCHANGED db]_vars

\* C4 witness: a /safe/start with bet 1.0 has just succeeded, its session and
\* pending row exist, and the balance still holds the 1.0 the bet was
\* checked against.
C4_Started ==
    /\ resp.op = "safe_start" /\ resp.status = 200
    /\ LET sid == resp.body.session_id
       IN  /\ sid \in DOMAIN safe_sessions /\ sid \in DOMAIN games
           /\ safe_sessions[sid].bet = Unit
           /\ safe_sessions[sid].user_id = Alice
           /\ games[sid].result = "pending"
    /\ users[Alice]["ton"] = Unit
    /\ audit[Alice]["ton"].start = Unit /\ ~audit[Alice]["ton"].credited

\* C5: no session ever has more than 3 guesses accepted (evaluated against
\* its code and answered with win, lose or try_again).
C5_AtMostThreeGuesses ==
    \A sid \in DOMAIN sess_audit : sess_audit[sid].accepted <= 3

\* C6: for every session the prize is credited at most once and is_finished
\* goes from false to true at most once.
C6_PrizeOnce ==
    \A sid \in DOMAIN sess_audit :
        sess_audit[sid].prizes <= 1 /\ sess_audit[sid].flips <= 1

C7_WinEffect(p) ==
    /\ \A label \in GuessLabels : Enters(p, label) =>
         (label = "guess_win_credit"
            <=> SameDigits(req'[p].guess, safe_sessions[req'[p].session_id].code))
    /\ Leaves(p, "guess_win_credit") =>
         LET s == safe_sessions[req[p].session_id]
         IN  users' = [users EXCEPT ![s.user_id][s.currency] = @ + 10 * s.bet]
    /\ Leaves(p, "guess_win_games") =>
         /\ games'[req[p].session_id].result = "win"
         /\ games'[req[p].session_id].win = TRUE
    /\ Leaves(p, "guess_win_session") =>
         safe_sessions'[req[p].session_id].is_finished = TRUE
    /\ Leaves(p, "guess_win_cache") =>
         LET s == safe_sessions[req[p].session_id]
         IN  /\ pc'[p] = "idle" /\ resp'.status = 200
             /\ resp'.body = [result |-> "win", prize |-> 10 * s.bet,
                              code |-> s.code]

\* C7: a guess by the owner on an unfinished session with attempts in
\* {0,1,2} that equals the code position by position is accepted and takes
\* the winning branch, and only such a guess does; the winning branch adds
\* exactly 10 x bet to the owner's balance in the session currency, sets the
\* Game Log row to result="win", win=true, sets is_finished, and returns
\* result="win", prize = 10 x bet and the code.
C7_CorrectGuessWins ==
    [][/\ \A sid \in DOMAIN safe_sessions : \A u \in UserIds : \A g \in Guesses :
            LET s == safe_sessions[sid]
            IN  (/\ ~s.is_finished /\ s.user_id = u /\ s.attempts \in 0..2
                 /\ SameDigits(g, s.code))
                  => /\ GuessCheck(s, u, g) = NoResp
                     /\ GuessBranch(IsWin(g, s.code), s.attempts + 1)
                          = "guess_win_credit"
       /\ \A p \in Procs : C7_WinEffect(p)]_vars

\* C7 witness: a winning guess has just been answered; the row says win,
\* the session is finished, the balance holds the prize.
C7_Won ==
    /\ resp.op = "guess" /\ resp.status = 200 /\ resp.body.result = "win"
    /\ resp.body.prize = 10 * Unit
    /\ games[1].result = "win" /\ games[1].win
    /\ safe_sessions[1].is_finished
    /\ users[Alice]["ton"] >= 10 * Unit

C8_LoseEffect(p) ==
    /\ \A label \in GuessLabels : Enters(p, label) =>
         LET s == safe_sessions[req'[p].session_id]
         IN  ~SameDigits(req'[p].guess, s.code) =>
                /\ s.attempts = 2 => label = "guess_lose_games"
                /\ s.attempts \in {0, 1} => label = "guess_try"
    /\ Leaves(p, "guess_lose_games") =>
         /\ games'[req[p].session_id].result = "lose"
         /\ games'[req[p].session_id].win = FALSE
         /\ UNCHANGED users
    /\ Leaves(p, "guess_lose_session") =>
         LET sid == req[p].session_id
         IN  /\ safe_sessions'[sid].attempts = 3
             /\ safe_sessions'[sid].is_finished = TRUE
             /\ pc'[p] = "idle" /\ resp'.status = 200
             /\ resp'.body = [result |-> "lose", code |-> safe_sessions[sid].code]
             /\ UNCHANGED users
    /\ Leaves(p, "guess_try") =>
         LET sid == req[p].session_id
         IN  /\ req[p].attempts \in {0, 1}
             /\ safe_sessions' = [safe_sessions EXCEPT
                                    ![sid].attempts = req[p].attempts + 1]
             /\ pc'[p] = "idle" /\ resp'.status = 200
             /\ resp'.body = [result |-> "try_again",
                              attempts_left |-> 3 - (req[p].attempts + 1)]
             /\ UNCHANGED <<users, games, user_balances_cache>>

\* C8: a 3-digit guess by the owner on an unfinished session that differs
\* from the code is accepted; with attempts = 2 it takes the losing branch,
\* which sets the Game Log row to result="lose", win=false, sets attempts to
\* 3 and is_finished, returns result="lose" with the code and writes no
\* balance; with attempts in {0,1} it returns result="try_again" with
\* attempts_left = 3 - (attempts+1), stores attempts+1 and writes nothing
\* else.  attempts is the value the request read from the session row.
C8_WrongGuess ==
    [][/\ \A sid \in DOMAIN safe_sessions : \A u \in UserIds : \A g \in Guesses :
            LET s == safe_sessions[sid]
            IN  (/\ ~s.is_finished /\ s.user_id = u /\ s.attempts \in 0..2
                 /\ Len(g) = 3 /\ ~SameDigits(g, s.code))
                  => /\ GuessCheck(s, u, g) = NoResp
                     /\ GuessBranch(IsWin(g, s.code), s.attempts + 1)
                          = IF s.attempts = 2 THEN "guess_lose_games"
                            ELSE "guess_try"
       /\ \A p \in Procs : C8_LoseEffect(p)]_vars

\* C8 witness: the third wrong guess has just been answered with "lose".
C8_Lost ==
    /\ resp.op = "guess" /\ resp.status = 200 /\ resp.body.result = "lose"
    /\ resp.body.code = safe_sessions[1].code
    /\ safe_sessions[1].attempts = 3 /\ safe_sessions[1].is_finished
    /\ games[1].result = "lose" /\ ~games[1].win
    /\ sess_audit[1].prizes = 0

\* The cases in which /safe/guess must refuse.
C9_MustReject(s, u) ==
    s = None \/ s.is_finished \/ s.user_id # u \/ s.attempts >= 3

\* C9: a guess on a missing session, a finished session, a session of
\* another user or a session with attempts already 3 is answered with an
\* error and never accepted, and the step that answers a guess with an error
\* changes no table, no cache entry and no slot.
C9_RejectedGuess ==
    [][/\ \A sid \in DOMAIN safe_sessions \cup {NoSession} :
          \A u \in UserIds : \A g \in Guesses :
            C9_MustReject(FetchSession(sid), u)
                => GuessCheck(FetchSession(sid), u, g).status \in {400, 403, 404}
       /\ \A p \in Procs : \A label \in GuessLabels : Enters(p, label) =>
            ~C9_MustReject(FetchSession(req'[p].session_id), req'[p].user_id)
       /\ (resp'.op = "guess" /\ resp'.status # 200) =>
            UNCHANGED <<db, user_balances_cache, pc, req, audit, sess_audit>>]_vars

\* C9 witness: a guess sent after the session was finished has just been
\* refused.
C9_RefusedAfterFinish ==
    /\ resp = Error("guess", 400, "game already finished")
    /\ safe_sessions[1].is_finished
    /\ AllIdle

\* C10: for every session used_hint goes from false to true at most once,
\* at most one /safe/hint succeeds, and the hint cost is debited at most
\* once.
C10_HintOnce ==
    \A sid \in DOMAIN sess_audit :
        /\ sess_audit[sid].hint_flips <= 1
        /\ sess_audit[sid].hints_ok <= 1
        /\ sess_audit[sid].hint_debits <= 1

\* The cases in which /safe/hint must refuse on the session row.
C11_MustRefuse(s, u) == s = None \/ s.is_finished \/ s.user_id # u

C11_HintEffect(p) ==
    /\ Enters(p, "hint_user") =>
         /\ ~C11_MustRefuse(FetchSession(req'[p].session_id), req'[p].user_id)
         /\ UNCHANGED <<db, user_balances_cache>>
    /\ Leaves(p, "hint_user") =>
         LET s == safe_sessions[req[p].session_id]
         IN  /\ pc'[p] = "hint_debit" <=> users[s.user_id][s.currency] >= Unit
             /\ pc'[p] # "hint_debit" =>
                  pc'[p] = "idle" /\ resp'.status \in {400, 404}
             /\ UNCHANGED <<db, user_balances_cache>>
    /\ Leaves(p, "hint_debit") =>
         LET s == safe_sessions[req[p].session_id]
         IN  /\ users' = [users EXCEPT ![s.user_id][s.currency] = @ - Unit]
             /\ UNCHANGED <<games, safe_sessions>>
    /\ Leaves(p, "hint_session") =>
         /\ safe_sessions' = [safe_sessions EXCEPT
                                ![req[p].session_id].used_hint = TRUE]
         /\ UNCHANGED <<users, games>>
    /\ Leaves(p, "hint_fetch") => UNCHANGED db
    /\ Leaves(p, "hint_cache") =>
         /\ pc'[p] = "idle" /\ resp'.status = 200
         /\ resp'.body = [hint |-> safe_sessions[req[p].session_id].code[1],
                          cost |-> Unit]
         /\ UNCHANGED db

\* C11: a /safe/hint on a missing session, a finished session or a session
\* of another user is answered with an error and never accepted, and so is
\* one whose owner balance, when read, is below 1.0; a /safe/hint answered
\* with an error has written no table and no cache entry; an accepted one
\* subtracts exactly 1.0 from the owner's balance in the session currency,
\* then sets used_hint and nothing else of the session (code, attempts and
\* is_finished keep their values), and returns hint = the first digit of the
\* session's code and cost = 1.0.
C11_HintContract ==
    [][/\ \A sid \in DOMAIN safe_sessions \cup {NoSession} : \A u \in UserIds :
            C11_MustRefuse(FetchSession(sid), u)
                => HintCheck(FetchSession(sid), u).status \in {400, 403, 404}
       /\ \A p \in Procs : C11_HintEffect(p)
       /\ (resp'.op = "hint" /\ resp'.status # 200) =>
            UNCHANGED <<db, user_balances_cache>>]_vars

\* C11 witness: a hint on the untouched session has just been answered with
\* the first digit of the code; the 1.0 the account held is gone, used_hint
\* is set, attempts and is_finished are as they were.
C11_Hinted ==
    /\ resp.op = "hint" /\ resp.status = 200
    /\ resp.body = [hint |-> safe_sessions[1].code[1], cost |-> Unit]
    /\ safe_sessions[1].used_hint
    /\ safe_sessions[1].attempts = 0 /\ ~safe_sessions[1].is_finished
    /\ audit[Alice]["ton"].start = Unit /\ users[Alice]["ton"] = 0
    /\ sess_audit[1].hint_debits = 1

\* C12: a /coin/start that was accepted (user exists, balance read >= bet,
\* choice heads or tails) credits 2 x bet on a win and nothing on a loss,
\* appends exactly one Game Log row with game="Coin" and win equal to the
\* outcome, and reports the chosen side and prize = 2 x bet on a win, the
\* opposite side and prize = 0 on a loss.
C12_CoinContract ==
    [][\A p \in Procs :
         /\ Enters(p, "coin_debit") =>
              /\ req'[p].choice \in {"heads", "tails"}
              /\ users[req'[p].user_id][req'[p].currency] >= req'[p].bet
         /\ Leaves(p, "coin_debit") =>
              users' = [users EXCEPT ![req[p].user_id][req[p].currency]
                                        = @ - req[p].bet]
         /\ Leaves(p, "coin_credit") =>
              users' = [users EXCEPT ![req[p].user_id][req[p].currency]
                                        = @ + 2 * req[p].bet]
         /\ Leaves(p, "coin_insert") =>
              /\ Cardinality(DOMAIN games') = Cardinality(DOMAIN games) + 1
              /\ \E id \in DOMAIN games' \ DOMAIN games :
                    /\ games'[id].game = "Coin"
                    /\ games'[id].win = req[p].is_win
         /\ Leaves(p, "coin_cache") =>
              /\ resp'.status = 200
              /\ resp'.body.win = req[p].is_win
              /\ resp'.body.win =>
                    /\ resp'.body.result = req[p].choice
                    /\ resp'.body.prize = 2 * req[p].bet
              /\ ~resp'.body.win =>
                    /\ resp'.body.result # req[p].choice
                    /\ resp'.body.result \in {"heads", "tails"}
                    /\ resp'.body.prize = 0]_vars

\* C13: every /boxes/start that was accepted (user exists, balance read >=
\* bet) with a positive bet and a choice in {1,2,3} completes with a 200 response carrying win,
\* prize, chosenBox and winningBox, and has appended its "Boxes" Game Log
\* row.
C13_BoxesCompletes ==
    [][\A p \in Procs :
         (/\ Leaves(p, "boxes_debit")
          /\ req[p].choice \in {1, 2, 3} /\ req[p].bet > 0) =>
            /\ pc'[p] # "idle" \/ resp'.status = 200
            /\ pc'[p] = "idle" =>
                 /\ resp'.logged
                 /\ resp'.body.chosenBox = req[p].choice
                 /\ resp'.body.winningBox \in {1, 2, 3}
                 /\ resp'.body.win <=> resp'.body.winningBox = req[p].choice
                 /\ resp'.body.prize
                      = IF resp'.body.win THEN 2 * req[p].bet ELSE 0]_vars

C14_InitEffect(p) ==
    /\ Enters(p, "init_fetch") =>
         LET id == req'[p].id
         IN  /\ id \in DOMAIN users => users' = users
             /\ id \notin DOMAIN users =>
                  /\ DOMAIN users' = DOMAIN users \cup {id}
                  /\ users'[id] = [ton |-> 0, usdt |-> 0]
                  /\ \A u \in DOMAIN users : users'[u] = users[u]
             /\ UNCHANGED <<games, safe_sessions, user_balances_cache>>
    /\ Leaves(p, "init_fetch") =>
         /\ req[p].id \in DOMAIN users
         /\ pc'[p] = "idle" /\ resp'.status = 200
         /\ resp'.body = users[req[p].id]
         /\ UNCHANGED <<db, user_balances_cache>>

\* C14: the INSERT of /init leaves every table and the cache as they are
\* when the id already has an account, and otherwise adds exactly one
\* account, for that id, with both balances 0; the SELECT of /init changes
\* nothing and /init returns the balances the account holds at that moment,
\* whatever /balance/add requests and other /init requests run in between.
C14_InitIdempotent ==
    [][\A p \in Procs : C14_InitEffect(p)]_vars

\* C14 witness: the account of user 2 was created, credited with 1.0 and
\* then named in a /init that has just returned that 1.0.
C14_InitKeepsFunds ==
    /\ AllIdle
    /\ resp.op = "init" /\ resp.status = 200
    /\ resp.body = [ton |-> Unit, usdt |-> 0]
    /\ 2 \in DOMAIN users /\ users[2] = [ton |-> Unit, usdt |-> 0]
    /\ users[Alice] = [ton |-> 0, usdt |-> 0]
    /\ audit[2]["ton"].credited

\* C15: a /balance/add, /balance/prize or /game request that names an id
\* with no account is answered with the NotFound client error (404), a
\* status no InsufficientFunds answer (400) has.
C15_UnknownUserNotFound ==
    [][\A p \in Procs :
         /\ (Leaves(p, "add_fetch") /\ req[p].id \notin DOMAIN users) =>
              pc'[p] = "idle" /\ resp'.status = 404
         /\ (Leaves(p, "prize_fetch") /\ req[p].id \notin DOMAIN users) =>
              pc'[p] = "idle" /\ resp'.status = 404
         /\ (Leaves(p, "game_insert") /\ req[p].game.user_id \notin DOMAIN users) =>
              pc'[p] = "idle" /\ resp'.status = 404]_vars

\* C16: a /boxes/start with a positive bet whose choice is not in {1,2,3}
\* is rejected before any storage write: no statement of it changes a
\* balance, the Game Log or a session.
C16_BadBoxRejected ==
    [][\A p \in Procs :
         (/\ Leaves(p, "boxes_debit")
          /\ req[p].choice \notin {1, 2, 3} /\ req[p].bet > 0) =>
            UNCHANGED db]_vars

\* Slot p executes one iteration of the polling loop.
C17_Polls(p) ==
    /\ pc[p] = "sub_poll"
    /\ pc'[p] # "sub_poll" \/ req'[p].polls # req[p].polls

\* What one iteration does when `differs` says whether it has to report,
\* and `shown` what it reports.
C17_PollEffect(p, differs, shown) ==
    /\ Enters(p, "sub_poll") =>
         /\ req'[p].polls = 0
         /\ UNCHANGED <<db, user_balances_cache>>
    /\ C17_Polls(p) =>
         /\ req[p].polls \in 0..29
         /\ differs =>
              /\ pc'[p] = "idle" /\ resp'.status = 200
              /\ resp'.body = [update |-> TRUE, ton |-> shown.ton,
                               usdt |-> shown.usdt]
         /\ (~differs /\ req[p].polls = 29) =>
              /\ pc'[p] = "idle" /\ resp'.status = 200
              /\ resp'.body = [update |-> FALSE]
         /\ (~differs /\ req[p].polls < 29) =>
              /\ pc'[p] = "sub_poll"
              /\ req'[p] = [req[p] EXCEPT !.polls = @ + 1]
         /\ UNCHANGED <<db, user_balances_cache>>

\* C17 as stated: a re-check reports exactly when the user exists and a
\* stored balance differs from the value the client supplied, and it
\* reports the stored balances.
C17_ReportsAnyDifference ==
    [][\A p \in Procs :
         LET row == FetchUser(req[p].user_id)
         IN  C17_PollEffect(p,
                 /\ row # None
                 /\ row.ton # req[p].current.ton \/ row.usdt # req[p].current.usdt,
                 row)]_vars

\* C17, amended: every /balance/subscribe runs at most 30 re-checks, none of
\* which writes a table or the cache; a re-check returns {update:true, ton,
\* usdt} exactly when the user exists and a stored balance rounded to 2
\* decimals differs from the client-supplied value rounded to 2 decimals,
\* and it carries the stored balances rounded to 2 decimals; the 30th
\* re-check that sees no such difference (or no user) returns
\* {update:false}, and an earlier one goes on to the next re-check.
C17_ReportsRoundedDifference ==
    [][\A p \in Procs :
         LET row == FetchUser(req[p].user_id)
             cents == [ton |-> Round2(row.ton), usdt |-> Round2(row.usdt)]
         IN  C17_PollEffect(p,
                 /\ row # None
                 /\ \/ cents.ton # Round2(req[p].current.ton)
                    \/ cents.usdt # Round2(req[p].current.usdt),
                 cents)]_vars

\* C17 witness: a subscriber that reported balance 0 was polling when 1.0
\* was credited, and has just been told the new balance.
C17_Notified ==
    /\ resp.op = "subscribe" /\ resp.status = 200
    /\ resp.body = [update |-> TRUE, ton |-> Unit, usdt |-> 0]
    /\ users[Alice] = [ton |-> Unit, usdt |-> 0]
    /\ audit[Alice]["ton"].start = 0 /\ audit[Alice]["ton"].credited

\* C18: once the Game Log row of a session has a terminal result ("win" or
\* "lose"), no step changes its result or its win field; a row with result
\* "pending" only ever goes to a terminal result.
C18_TerminalRowFrozen ==
    [][\A id \in DOMAIN games :
         /\ games[id].result \in {"win", "lose"} =>
              /\ games'[id].result = games[id].result
              /\ games'[id].win = games[id].win
         /\ games[id].result = "pending" =>
              games'[id].result \in {"pending", "win", "lose"}]_vars

\* C19: every row of the Game Log has bet > 0.
C19_LoggedBetPositive ==
    \A id \in DOMAIN games : games[id].bet > 0

\* C20: whenever no request is in flight, the attempts of every session are
\* in 0..3 and equal the number of guesses that were accepted and answered
\* on it.
C20_AttemptsCountGuesses ==
    AllIdle => \A sid \in DOMAIN safe_sessions :
        /\ safe_sessions[sid].attempts \in 0..3
        /\ safe_sessions[sid].attempts = sess_audit[sid].accepted

\* The three states of a session, read off the session row, its Game Log
\* row and the number of prizes credited for it.
C21_Active(sid) ==
    /\ ~safe_sessions[sid].is_finished /\ safe_sessions[sid].attempts < 3
    /\ games[sid].result = "pending"

C21_WonState(sid) ==
    /\ safe_sessions[sid].is_finished
    /\ games[sid].result = "win" /\ games[sid].win
    /\ sess_audit[sid].prizes >= 1

C21_LostState(sid) ==
    /\ safe_sessions[sid].is_finished /\ safe_sessions[sid].attempts = 3
    /\ games[sid].result = "lose" /\ ~games[sid].win
    /\ sess_audit[sid].prizes = 0

\* C21: whenever no /safe/guess is in flight, every session is active
\* (unfinished, attempts < 3, row pending), won (finished, row win with
\* win=true, prize credited) or lost (finished, attempts = 3, row lose with
\* win=false, no prize credited).
C21_SessionStateConsistent ==
    AllIdle => \A sid \in DOMAIN safe_sessions :
        C21_Active(sid) \/ C21_WonState(sid) \/ C21_LostState(sid)

\* C22: whenever no request is in flight, every entry of the in-memory
\* balance cache equals the stored balances of its user.
C22_CacheMatchesStore ==
    AllIdle => \A u \in DOMAIN user_balances_cache :
        u \in DOMAIN users /\ user_balances_cache[u] = users[u]

====
